---- MODULE Spec2Model ----
(***************************************************************************)
(* Model of package tmx (src/tmx.go): the GID resolver Map.DecodeGID, the  *)
(* layer payload decoder Layer.Decode / Data.decodeBytes, the layer        *)
(* classifier getTileset, Polygon.Decode, and the orchestration in         *)
(* Map.DecodedLayers and Read.                                             *)
(*                                                                         *)
(* A uint32 (types GID and ID) is kept as a record [top, low]: top is bits *)
(* 31..28 and low is bits 27..0, so the value is top * 2^28 + low.  All    *)
(* 32-bit operations below work on that pair with their full width.        *)
(***************************************************************************)
EXTENDS Integers, Sequences, FiniteSets, TLC

VARIABLES m, dg, ld, pg, pc, i, j, gids, d, out, err, steps, layers, k, l, cls

vars == <<m, dg, ld, pg, pc, i, j, gids, d, out, err, steps, layers, k, l, cls>>

----------------------------------------------------------------------------
(* Bounds of the model.                                                    *)

MaxTilesets == 2
MaxLow == 6
MaxDim == 2
MaxCells == 4
MaxMapCells == 3
MaxLayers == 2
MaxPoints == 3
MaxRawLen == 3

----------------------------------------------------------------------------
(* 32-bit unsigned values.                                                 *)

LowBits == 28
LowSpan == 2^LowBits

U32(top, low) == [top |-> top, low |-> low]

RECURSIVE BitAnd(_, _)
BitAnd(a, b) ==
    IF a = 0 \/ b = 0 THEN 0
    ELSE (a % 2) * (b % 2) + 2 * BitAnd(a \div 2, b \div 2)

RECURSIVE BitAndNot(_, _)
BitAndNot(a, b) ==
    IF a = 0 THEN 0
    ELSE (a % 2) * (1 - (b % 2)) + 2 * BitAndNot(a \div 2, b \div 2)

RECURSIVE BitOr(_, _)
BitOr(a, b) ==
    IF a = 0 /\ b = 0 THEN 0
    ELSE (IF a % 2 = 1 \/ b % 2 = 1 THEN 1 ELSE 0) + 2 * BitOr(a \div 2, b \div 2)

U32And(a, b) == U32(BitAnd(a.top, b.top), BitAnd(a.low, b.low))
U32AndNot(a, b) == U32(BitAndNot(a.top, b.top), BitAndNot(a.low, b.low))
U32Or(a, b) == U32(BitOr(a.top, b.top), BitOr(a.low, b.low))
U32Leq(a, b) == a.top < b.top \/ (a.top = b.top /\ a.low <= b.low)
U32Sub(a, b) ==
    IF a.low >= b.low
    THEN U32((a.top - b.top) % 16, a.low - b.low)
    ELSE U32((a.top - b.top - 1) % 16, a.low - b.low + LowSpan)
U32Zero == U32(0, 0)

(* GID constants, src/tmx.go:19-25 *)
GIDHorizontalFlip == U32(8, 0)
GIDVerticalFlip == U32(4, 0)
GIDDiagonalFlip == U32(2, 0)
GIDFlip == U32Or(U32Or(GIDHorizontalFlip, GIDVerticalFlip), GIDDiagonalFlip)
GIDMask == U32(0, LowSpan - 1)

(* Error values, src/tmx.go:28-34, and errors of the libraries called.     *)
NoErr == "nil"
ErrUnsupportedEncoding == "tmx: unsupported encoding scheme"
ErrUnsupportedCompression == "tmx: unsupported compression method"
ErrInvalidDecodedDataLen == "tmx: invalid decoded data length"
ErrInvalidGID == "tmx: invalid GID"
ErrInvalidPointsField == "tmx: invalid points string"
ErrBase64 == "base64: illegal base64 data"
ErrHeader == "invalid header"
ErrStream == "unexpected EOF"
ErrSyntax == "strconv.Atoi: invalid syntax"

----------------------------------------------------------------------------
(* Map.DecodeGID                                                           *)

NoTileset == 0

NilTile ==
    [ID |-> U32Zero, Tileset |-> NoTileset, HorizontalFlip |-> FALSE,
     VerticalFlip |-> FALSE, DiagonalFlip |-> FALSE, Nil |-> TRUE]

RECURSIVE ScanTilesetsForward(_, _, _, _)
ScanTilesetsForward(tilesets, n, gid, umaskedGID) ==
    IF n > Len(tilesets) THEN [tile |-> NilTile, err |-> ErrInvalidGID]
    ELSE IF U32Leq(tilesets[n].FirstGID, umaskedGID)
    THEN [tile |-> [ID |-> U32Sub(umaskedGID, tilesets[n].FirstGID),
                    Tileset |-> n,
                    HorizontalFlip |-> U32And(gid, GIDHorizontalFlip) # U32Zero,
                    VerticalFlip |-> U32And(gid, GIDVerticalFlip) # U32Zero,
                    DiagonalFlip |-> U32And(gid, GIDDiagonalFlip) # U32Zero,
                    Nil |-> FALSE],
          err |-> NoErr]
    ELSE ScanTilesetsForward(tilesets, n + 1, gid, umaskedGID)

ScanTilesetsFirstMatch(tilesets, n, gid, umaskedGID) ==
    ScanTilesetsForward(tilesets, 1, gid, umaskedGID)

(* The loop of lines 96-106: n runs from len(m.Tilesets) down to 1.        *)
RECURSIVE ScanTilesets(_, _, _, _)
ScanTilesets(tilesets, n, gid, umaskedGID) ==
    IF n < 1 THEN [tile |-> NilTile, err |-> ErrInvalidGID]
    ELSE IF U32Leq(tilesets[n].FirstGID, umaskedGID)
    THEN [tile |-> [ID |-> U32Sub(umaskedGID, tilesets[n].FirstGID),
                    Tileset |-> n,
                    HorizontalFlip |-> U32And(gid, GIDHorizontalFlip) # U32Zero,
                    VerticalFlip |-> U32And(gid, GIDVerticalFlip) # U32Zero,
                    DiagonalFlip |-> U32And(gid, GIDDiagonalFlip) # U32Zero,
                    Nil |-> FALSE],
          err |-> NoErr]
    ELSE ScanTilesets(tilesets, n - 1, gid, umaskedGID)

DecodeGID(tilesets, gid) ==
    IF gid = U32Zero THEN [tile |-> NilTile, err |-> NoErr]
    ELSE ScanTilesets(tilesets, Len(tilesets), gid, U32AndNot(gid, GIDFlip))

----------------------------------------------------------------------------
(* Layer.Decode and Data.decodeBytes                                       *)
(*                                                                         *)
(* Data.Bytes is the text of the <data> element.  The model keeps what     *)
(* encoding/base64 and compress/{gzip,zlib} make of it: kind says whether  *)
(* the trimmed text is valid base-64 and whether the compressed stream is  *)
(* intact, format is the container the stream's header announces, content  *)
(* is the byte sequence the stream decompresses to.                        *)

XML == ""
CSV == "csv"
Base64 == "base64"
Uncompressed == ""
Gzip == "gzip"
Zlib == "zlib"

(* gzip.NewReader / zlib.NewReader over the base-64 decoder: the header is *)
(* read through the decoder, so invalid base-64 or a foreign header fails. *)
NewReader(bytes, format) ==
    IF bytes.kind = "badBase64" THEN ErrBase64
    ELSE IF bytes.format # format THEN ErrHeader
    ELSE NoErr

(* ioutil.ReadAll: a broken stream yields the bytes read so far and the    *)
(* stream's error.                                                         *)
ReadAll(bytes) ==
    IF bytes.kind = "badStream"
    THEN [bytes |-> SubSeq(bytes.content, 1, Len(bytes.content) \div 2), err |-> ErrStream]
    ELSE [bytes |-> bytes.content, err |-> NoErr]

decodeBytesPayloadFirst(data) ==
    IF data.Bytes.kind = "badBase64" THEN [bytes |-> <<>>, err |-> ErrBase64]
    ELSE IF data.Compression \notin {Gzip, Zlib}
    THEN [bytes |-> <<>>, err |-> ErrUnsupportedCompression]
    ELSE IF NewReader(data.Bytes, data.Compression) # NoErr
    THEN [bytes |-> <<>>, err |-> NewReader(data.Bytes, data.Compression)]
    ELSE ReadAll(data.Bytes)

decodeBytes(data) ==
    IF data.Compression \notin {Gzip, Zlib}
    THEN [bytes |-> <<>>, err |-> ErrUnsupportedCompression]
    ELSE IF NewReader(data.Bytes, data.Compression) # NoErr
    THEN [bytes |-> <<>>, err |-> NewReader(data.Bytes, data.Compression)]
    ELSE ReadAll(data.Bytes)

(* GID(b0) + GID(b1)<<8 + GID(b2)<<16 + GID(b3)<<24, lines 316-319.        *)
GIDFromBytes(b0, b1, b2, b3) ==
    U32(b3 \div 16, b0 + b1 * 256 + b2 * 65536 + (b3 % 16) * 16777216)

(* The inner loop of lines 315-323 from column x on; st = [j, gids], gids  *)
(* indexed from 1.                                                         *)
RECURSIVE DecodeRow(_, _, _, _, _)
DecodeRow(dataBytes, width, y, x, st) ==
    IF ~(x < width) THEN st
    ELSE DecodeRow(dataBytes, width, y, x + 1,
            [j |-> st.j + 4,
             gids |-> [st.gids EXCEPT ![y * width + x + 1] =
                          GIDFromBytes(dataBytes[st.j + 1], dataBytes[st.j + 2],
                                       dataBytes[st.j + 3], dataBytes[st.j + 4])]])

(* The outer loop of lines 314-324 from row y on.                          *)
RECURSIVE DecodeRows(_, _, _, _, _)
DecodeRows(dataBytes, width, height, y, st) ==
    IF ~(y < height) THEN st
    ELSE DecodeRows(dataBytes, width, height, y + 1,
                    DecodeRow(dataBytes, width, y, 0, st))

LayerDecodeAnyLen(layer) ==
    LET r == decodeBytes(layer.Data)
    IN  IF r.err # NoErr THEN [gids |-> <<>>, err |-> r.err]
        ELSE IF Len(r.bytes) < layer.Width * layer.Height * 4
        THEN [gids |-> <<>>, err |-> ErrInvalidDecodedDataLen]
        ELSE [gids |-> DecodeRows(r.bytes, layer.Width, layer.Height, 0,
                          [j |-> 0,
                           gids |-> [n \in 1..(layer.Width * layer.Height) |-> U32Zero]]).gids,
              err |-> NoErr]

(* Layer.Decode, lines 301-327.  A nil slice is the empty sequence.        *)
LayerDecode(layer) ==
    LET r == decodeBytes(layer.Data)
    IN  IF r.err # NoErr THEN [gids |-> <<>>, err |-> r.err]
        ELSE IF Len(r.bytes) # layer.Width * layer.Height * 4
        THEN [gids |-> <<>>, err |-> ErrInvalidDecodedDataLen]
        ELSE [gids |-> DecodeRows(r.bytes, layer.Width, layer.Height, 0,
                          [j |-> 0,
                           gids |-> [n \in 1..(layer.Width * layer.Height) |-> U32Zero]]).gids,
              err |-> NoErr]

----------------------------------------------------------------------------
(* getTileset, lines 111-128                                               *)

(* The loop of lines 112-121 from tile n on, tileset being the tileset     *)
(* tracked so far.                                                         *)
RECURSIVE getTilesetNoNilCheckFrom(_, _, _)
getTilesetNoNilCheckFrom(tiles, n, tileset) ==
    IF n > Len(tiles)
    THEN IF tileset = NoTileset
         THEN [tileset |-> NoTileset, isEmpty |-> TRUE, usesMultipleTilesets |-> FALSE]
         ELSE [tileset |-> tileset, isEmpty |-> FALSE, usesMultipleTilesets |-> FALSE]
    ELSE IF tileset = NoTileset
         THEN getTilesetNoNilCheckFrom(tiles, n + 1, tiles[n].Tileset)
         ELSE IF tileset # tiles[n].Tileset
              THEN [tileset |-> tileset, isEmpty |-> FALSE, usesMultipleTilesets |-> TRUE]
              ELSE getTilesetNoNilCheckFrom(tiles, n + 1, tileset)

RECURSIVE getTilesetFrom(_, _, _)
getTilesetFrom(tiles, n, tileset) ==
    IF n > Len(tiles)
    THEN IF tileset = NoTileset
         THEN [tileset |-> NoTileset, isEmpty |-> TRUE, usesMultipleTilesets |-> FALSE]
         ELSE [tileset |-> tileset, isEmpty |-> FALSE, usesMultipleTilesets |-> FALSE]
    ELSE IF ~tiles[n].Nil
         THEN IF tileset = NoTileset
              THEN getTilesetFrom(tiles, n + 1, tiles[n].Tileset)
              ELSE IF tileset # tiles[n].Tileset
                   THEN [tileset |-> tileset, isEmpty |-> FALSE, usesMultipleTilesets |-> TRUE]
                   ELSE getTilesetFrom(tiles, n + 1, tileset)
         ELSE getTilesetFrom(tiles, n + 1, tileset)

getTilesetNoNilCheck(decodedLayer) == getTilesetNoNilCheckFrom(decodedLayer.DecodedTiles, 1, NoTileset)

getTileset(decodedLayer) == getTilesetFrom(decodedLayer.DecodedTiles, 1, NoTileset)

----------------------------------------------------------------------------
(* Polygon.Decode, lines 435-455.  A Go string is a sequence of one-       *)
(* character strings.                                                      *)

Digits == <<"0", "1", "2", "3", "4", "5", "6", "7", "8", "9">>
IsDigit(c) == \E n \in 1..10 : Digits[n] = c
DigitVal(c) == (CHOOSE n \in 1..10 : Digits[n] = c) - 1

(* strings.Split(s, sep) for a one-character separator.                    *)
RECURSIVE Split(_, _)
Split(s, sep) ==
    IF \E n \in 1..Len(s) : s[n] = sep
    THEN LET p == CHOOSE n \in 1..Len(s) :
                      s[n] = sep /\ \A q \in 1..(n - 1) : s[q] # sep
         IN  <<SubSeq(s, 1, p - 1)>> \o Split(SubSeq(s, p + 1, Len(s)), sep)
    ELSE <<s>>

RECURSIVE DigitsValue(_, _)
DigitsValue(s, acc) ==
    IF s = <<>> THEN acc ELSE DigitsValue(Tail(s), acc * 10 + DigitVal(Head(s)))

(* strconv.Atoi: an optional sign, then one or more decimal digits.        *)
Atoi(s) ==
    LET signed == s # <<>> /\ Head(s) \in {"+", "-"}
        body == IF signed THEN Tail(s) ELSE s
    IN  IF body = <<>> \/ \E n \in 1..Len(body) : ~IsDigit(body[n])
        THEN [val |-> 0, err |-> ErrSyntax]
        ELSE [val |-> IF signed /\ Head(s) = "-"
                      THEN 0 - DigitsValue(body, 0) ELSE DigitsValue(body, 0),
              err |-> NoErr]

ZeroPoint == [X |-> 0, Y |-> 0]

(* The loop of lines 440-453 from part n on.                               *)
RECURSIVE DecodeParts(_, _, _)
DecodeParts(parts, n, pts) ==
    IF n > Len(parts) THEN [pts |-> pts, err |-> NoErr]
    ELSE LET coords == Split(parts[n], ",")
         IN  IF Len(coords) # 2 THEN [pts |-> <<>>, err |-> ErrInvalidPointsField]
             ELSE IF Atoi(coords[1]).err # NoErr
             THEN [pts |-> <<>>, err |-> Atoi(coords[1]).err]
             ELSE IF Atoi(coords[2]).err # NoErr
             THEN [pts |-> <<>>, err |-> Atoi(coords[2]).err]
             ELSE DecodeParts(parts, n + 1,
                     [pts EXCEPT ![n] = [X |-> Atoi(coords[1]).val,
                                         Y |-> Atoi(coords[2]).val]])

PolygonDecodeSkipEmpty(points) ==
    LET parts == SelectSeq(Split(points, " "), LAMBDA part : part # <<>>)
    IN  DecodeParts(parts, 1, [n \in 1..Len(parts) |-> ZeroPoint])

PolygonDecode(points) ==
    LET parts == Split(points, " ")
    IN  DecodeParts(parts, 1, [n \in 1..Len(parts) |-> ZeroPoint])

----------------------------------------------------------------------------
(* Inputs.                                                                 *)

RECURSIVE SeqsUpTo(_, _)
SeqsUpTo(S, n) ==
    IF n = 0 THEN {<<>>}
    ELSE LET shorter == SeqsUpTo(S, n - 1)
         IN  shorter \cup {Append(s, e) : s \in {t \in shorter : Len(t) = n - 1}, e \in S}

RECURSIVE Flatten(_)
Flatten(ss) == IF ss = <<>> THEN <<>> ELSE Head(ss) \o Flatten(Tail(ss))

(* The four little-endian bytes of a uint32.                               *)
LEBytes(g) ==
    <<g.low % 256, (g.low \div 256) % 256, (g.low \div 65536) % 256,
      (g.low \div 16777216) + 16 * g.top>>

PayloadOf(gs) == Flatten([n \in 1..Len(gs) |-> LEBytes(gs[n])])

GIDs == {U32(top, low) : top \in 0..15, low \in 0..MaxLow}

FirstGIDs == {U32(top, low) : top \in {0, 1, 8}, low \in {0, 1, 5}}

TilesetSeqs == SeqsUpTo({[FirstGID |-> f] : f \in FirstGIDs}, MaxTilesets)

LayerGIDs == {U32Zero, U32(0, 300), U32(15, 7)}

Contents ==
    LET exact == {PayloadOf(gs) : gs \in SeqsUpTo(LayerGIDs, MaxCells)}
    IN  exact \cup {SubSeq(c, 1, Len(c) - 1) : c \in exact \ {<<>>}}

Payloads ==
    {[kind |-> kf[1], format |-> kf[2], content |-> c] :
        kf \in {<<"ok", Gzip>>, <<"ok", Zlib>>, <<"badBase64", Zlib>>, <<"badStream", Gzip>>},
        c \in Contents}

Dims == (0 - MaxDim)..MaxDim

Encodings == {XML, CSV, Base64}

Compressions == {Uncompressed, "uncompressed", Gzip, Zlib}

MapGIDs == {U32Zero, U32(0, 1), U32(8, 5)}

MapLayers ==
    {[Width |-> Len(gs), Height |-> 1,
      Data |-> [Encoding |-> Base64, Compression |-> Zlib,
                Bytes |-> [kind |-> "ok", format |-> Zlib, content |-> PayloadOf(gs)]]] :
        gs \in SeqsUpTo(MapGIDs, MaxMapCells)}
    \cup
    {[Width |-> 1, Height |-> 1,
      Data |-> [Encoding |-> Base64, Compression |-> c,
                Bytes |-> [kind |-> "ok", format |-> Zlib, content |-> <<1, 0, 0>>]]] :
        c \in {Uncompressed, Zlib}}

MapTilesetSeqs ==
    {<<[FirstGID |-> U32(0, 5)]>>, <<[FirstGID |-> U32(0, 1)], [FirstGID |-> U32(0, 5)]>>}

Cells(layer) == layer.Width * layer.Height

(* The layer sequences of at most n layers and at most budget cells.       *)
RECURSIVE MapLayerSeqs(_, _)
MapLayerSeqs(n, budget) ==
    IF n = 0 THEN {<<>>}
    ELSE {<<>>} \cup
         UNION {{<<a>> \o rest : rest \in MapLayerSeqs(n - 1, budget - Cells(a))} :
                   a \in {x \in MapLayers : Cells(x) <= budget}}

Coords == {0 - 12, 0, 10}

PointSeqs == SeqsUpTo({[X |-> x, Y |-> y] : x \in Coords, y \in Coords}, MaxPoints)

RawStrings == SeqsUpTo({"0", "1", "-", ",", " "}, MaxRawLen)

RECURSIVE FormatNat(_)
FormatNat(n) ==
    IF n < 10 THEN <<Digits[n + 1]>> ELSE Append(FormatNat(n \div 10), Digits[(n % 10) + 1])

(* A signed decimal numeral for v; plus asks for an explicit "+" sign.     *)
FormatInt(v, plus) ==
    IF v < 0 THEN <<"-">> \o FormatNat(0 - v)
    ELSE IF plus THEN <<"+">> \o FormatNat(v) ELSE FormatNat(v)

(* The points attribute for pts: "x,y" pairs joined by single spaces.      *)
RECURSIVE FormatPoints(_, _)
FormatPoints(pts, plus) ==
    IF pts = <<>> THEN <<>>
    ELSE LET pair == FormatInt(Head(pts).X, plus) \o <<",">> \o FormatInt(Head(pts).Y, plus)
         IN  IF Len(pts) = 1 THEN pair
             ELSE pair \o <<" ">> \o FormatPoints(Tail(pts), plus)

----------------------------------------------------------------------------
(* State.                                                                  *)
(*   m       the Map: Tilesets and Layers as xml decoding left them        *)
(*   dg      the last call of Map.DecodeGID: argument and results          *)
(*   ld      the last call of Layer.Decode: receiver and results           *)
(*   pg      the last call of Polygon.Decode: receiver and results; src is *)
(*           the point list the Points string was written from, if any     *)
(*   pc      position of Read / Map.DecodedLayers                          *)
(*   i, j, gids, d, out   locals of Map.DecodedLayers                      *)
(*   layers, err          what Map.DecodedLayers returned                  *)
(*   steps   the calls Map.DecodedLayers has made, in order                *)
(*   k, l, cls            locals of Read's loop: index, the copy l and the *)
(*           results of getTileset for it                                  *)

EmptyMap == [Tilesets |-> <<>>, Layers |-> <<>>]

NoLayer ==
    [Width |-> 0, Height |-> 0,
     Data |-> [Encoding |-> XML, Compression |-> Uncompressed,
               Bytes |-> [kind |-> "ok", format |-> Zlib, content |-> <<>>]]]

NewDecodedLayer == [DecodedTiles |-> <<>>, Tileset |-> NoTileset, Empty |-> FALSE]

NoCls == [tileset |-> NoTileset, isEmpty |-> FALSE, usesMultipleTilesets |-> FALSE]

IdleDG == [called |-> FALSE, gid |-> U32Zero, tile |-> NilTile, err |-> NoErr]
IdleLD == [called |-> FALSE, layer |-> NoLayer, gids |-> <<>>, err |-> NoErr]
IdlePG == [called |-> FALSE, known |-> FALSE, src |-> <<>>, Points |-> <<>>,
           pts |-> <<>>, err |-> NoErr]

InitLocals ==
    /\ dg = IdleDG /\ ld = IdleLD /\ pg = IdlePG
    /\ pc = "Read" /\ i = 0 /\ j = 0 /\ gids = <<>> /\ d = NewDecodedLayer
    /\ out = <<>> /\ err = NoErr /\ steps = <<>> /\ layers = <<>>
    /\ k = 0 /\ l = NewDecodedLayer /\ cls = NoCls

mapVars == <<pc, i, j, gids, d, out, err, steps, layers, k, l, cls>>

----------------------------------------------------------------------------
(* Calls of the exported pure operations; a behaviour makes one call.      *)

CallDecodeGID ==
    /\ ~dg.called
    /\ \E gid \in GIDs :
          LET r == DecodeGID(m.Tilesets, gid)
          IN  dg' = [called |-> TRUE, gid |-> gid, tile |-> r.tile, err |-> r.err]
    /\ UNCHANGED <<m, ld, pg, mapVars>>

CallLayerDecode ==
    /\ ~ld.called
    /\ \E w \in Dims, h \in Dims, e \in Encodings, c \in Compressions, p \in Payloads :
          LET layer == [Width |-> w, Height |-> h,
                        Data |-> [Encoding |-> e, Compression |-> c, Bytes |-> p]]
              r == LayerDecode(layer)
          IN  ld' = [called |-> TRUE, layer |-> layer, gids |-> r.gids, err |-> r.err]
    /\ UNCHANGED <<m, dg, pg, mapVars>>

CallPolygonDecode ==
    /\ ~pg.called
    /\ \E src \in PointSeqs, plus \in BOOLEAN :
          LET points == FormatPoints(src, plus)
              r == PolygonDecode(points)
          IN  pg' = [called |-> TRUE, known |-> TRUE, src |-> src, Points |-> points,
                     pts |-> r.pts, err |-> r.err]
    /\ UNCHANGED <<m, dg, ld, mapVars>>

CallPolygonDecodeRaw ==
    /\ ~pg.called
    /\ \E points \in RawStrings :
          LET r == PolygonDecode(points)
          IN  pg' = [called |-> TRUE, known |-> FALSE, src |-> <<>>, Points |-> points,
                     pts |-> r.pts, err |-> r.err]
    /\ UNCHANGED <<m, dg, ld, mapVars>>

----------------------------------------------------------------------------
(* Read and Map.DecodedLayers, step by step.                               *)

Step(op, layer, index) == [op |-> op, layer |-> layer, index |-> index]

(* Read, line 466: call out.DecodedLayers(); line 66: var out.              *)
ReadCallDecodedLayers ==
    /\ pc = "Read"
    /\ pc' = "for_i" /\ i' = 0 /\ out' = <<>>
    /\ UNCHANGED <<m, dg, ld, pg, j, gids, d, err, steps, layers, k, l, cls>>

DecodeLayerStepKeepGoing ==
    /\ pc = "for_i" /\ i < Len(m.Layers)
    /\ LET r == LayerDecode(m.Layers[i + 1])
       IN  /\ steps' = Append(steps, Step("Decode", i, 0))
           /\ IF r.err # NoErr
              THEN /\ err' = r.err /\ i' = i + 1
                   /\ UNCHANGED <<layers, pc, gids, d, j>>
              ELSE /\ gids' = r.gids /\ d' = NewDecodedLayer /\ j' = 0 /\ pc' = "for_j"
                   /\ UNCHANGED <<layers, err, i>>
    /\ UNCHANGED <<m, dg, ld, pg, out, k, l, cls>>

(* Lines 67-74: the loop test has held; decode layer i.                    *)
DecodeLayerStep ==
    /\ pc = "for_i" /\ i < Len(m.Layers)
    /\ LET r == LayerDecode(m.Layers[i + 1])
       IN  /\ steps' = Append(steps, Step("Decode", i, 0))
           /\ IF r.err # NoErr
              THEN /\ layers' = <<>> /\ err' = r.err /\ pc' = "returned"
                   /\ UNCHANGED <<gids, d, j>>
              ELSE /\ gids' = r.gids /\ d' = NewDecodedLayer /\ j' = 0 /\ pc' = "for_j"
                   /\ UNCHANGED <<layers, err>>
    /\ UNCHANGED <<m, dg, ld, pg, i, out, k, l, cls>>

(* Lines 75-81: the inner loop test has held; resolve gids[j].             *)
DecodeGIDStep ==
    /\ pc = "for_j" /\ j < Len(gids)
    /\ LET r == DecodeGID(m.Tilesets, gids[j + 1])
       IN  /\ steps' = Append(steps, Step("DecodeGID", i, j))
           /\ IF r.err # NoErr
              THEN /\ layers' = <<>> /\ err' = r.err /\ pc' = "returned"
                   /\ UNCHANGED <<d, j>>
              ELSE /\ d' = [d EXCEPT !.DecodedTiles = Append(@, r.tile)]
                   /\ j' = j + 1
                   /\ UNCHANGED <<layers, err, pc>>
    /\ UNCHANGED <<m, dg, ld, pg, i, gids, out, k, l, cls>>

(* Line 82 and the increment of line 67: the inner loop is over.           *)
AppendLayer ==
    /\ pc = "for_j" /\ ~(j < Len(gids))
    /\ out' = Append(out, d) /\ i' = i + 1 /\ pc' = "for_i"
    /\ UNCHANGED <<m, dg, ld, pg, j, gids, d, err, steps, layers, k, l, cls>>

(* Line 84: the outer loop is over.                                        *)
ReturnLayers ==
    /\ pc = "for_i" /\ ~(i < Len(m.Layers))
    /\ layers' = out /\ err' = NoErr /\ pc' = "returned"
    /\ UNCHANGED <<m, dg, ld, pg, i, j, gids, d, out, steps, k, l, cls>>

(* Read, lines 467-469.                                                    *)
ReadFail ==
    /\ pc = "returned" /\ err # NoErr
    /\ pc' = "done"
    /\ UNCHANGED <<m, dg, ld, pg, i, j, gids, d, out, err, steps, layers, k, l, cls>>

(* Read, line 471: the loop starts.                                        *)
ReadLoop ==
    /\ pc = "returned" /\ err = NoErr
    /\ pc' = "classify" /\ k' = 0
    /\ UNCHANGED <<m, dg, ld, pg, i, j, gids, d, out, err, steps, layers, l, cls>>

(* Read, lines 472-478: one iteration.  l is a copy of layers[k]; the      *)
(* assignment of line 478 changes the copy only.                           *)
ReadClassify ==
    /\ pc = "classify" /\ k < Len(layers)
    /\ LET copy == layers[k + 1]
           r == getTileset(copy)
       IN  /\ cls' = r
           /\ l' = IF r.usesMultipleTilesets THEN copy
                   ELSE [copy EXCEPT !.Empty = r.isEmpty, !.Tileset = r.tileset]
    /\ k' = k + 1
    /\ UNCHANGED <<m, dg, ld, pg, pc, i, j, gids, d, out, err, steps, layers>>

(* Read, line 481.                                                         *)
ReadReturn ==
    /\ pc = "classify" /\ ~(k < Len(layers))
    /\ pc' = "done"
    /\ UNCHANGED <<m, dg, ld, pg, i, j, gids, d, out, err, steps, layers, k, l, cls>>

----------------------------------------------------------------------------
(* Specifications.                                                         *)

Init ==
    /\ m \in {[Tilesets |-> ts, Layers |-> ls] :
                 ts \in MapTilesetSeqs, ls \in MapLayerSeqs(MaxLayers, MaxMapCells)}
    /\ InitLocals

Next ==
    \/ ReadCallDecodedLayers
    \/ DecodeLayerStep
    \/ DecodeGIDStep
    \/ AppendLayer
    \/ ReturnLayers
    \/ ReadFail
    \/ ReadLoop
    \/ ReadClassify
    \/ ReadReturn

Spec == Init /\ [][Next]_vars

InitGID ==
    /\ m \in {[Tilesets |-> ts, Layers |-> <<>>] : ts \in TilesetSeqs}
    /\ InitLocals

NextGID == CallDecodeGID

SpecGID == InitGID /\ [][NextGID]_vars

InitLayer == m = EmptyMap /\ InitLocals

NextLayer == CallLayerDecode

SpecLayer == InitLayer /\ [][NextLayer]_vars

InitPolygon == m = EmptyMap /\ InitLocals

NextPolygon == CallPolygonDecode \/ CallPolygonDecodeRaw

SpecPolygon == InitPolygon /\ [][NextPolygon]_vars

----------------------------------------------------------------------------
(* Properties of Map.DecodeGID, checked under SpecGID.                     *)

Value(g) == g.top * LowSpan + g.low

SortedByFirstGID(tilesets) ==
    \A a, b \in 1..Len(tilesets) :
        a < b => U32Leq(tilesets[a].FirstGID, tilesets[b].FirstGID)

(* gid with bits 31, 30 and 29 cleared.                                    *)
FlipCleared(gid) == U32(gid.top % 2, gid.low)

(* C1: over tilesets sorted by FirstGID, DecodeGID is the reference        *)
(* resolver: gid 0 gives NilTile without error; otherwise the tileset with *)
(* the largest FirstGID <= masked (the last such one) is chosen, ID is     *)
(* masked - FirstGID, the flip flags are bits 31/30/29 of gid, Nil is      *)
(* false; with no FirstGID <= masked the result is ErrInvalidGID.          *)
C1_DecodeGIDIsReferenceResolver ==
    (dg.called /\ SortedByFirstGID(m.Tilesets)) =>
        LET masked == FlipCleared(dg.gid)
            cand == {n \in 1..Len(m.Tilesets) : U32Leq(m.Tilesets[n].FirstGID, masked)}
        IN  IF dg.gid = U32Zero THEN dg.tile = NilTile /\ dg.err = NoErr
            ELSE IF cand = {} THEN dg.err = ErrInvalidGID
            ELSE LET best == CHOOSE n \in cand :
                                 \A q \in cand :
                                     /\ U32Leq(m.Tilesets[q].FirstGID, m.Tilesets[n].FirstGID)
                                     /\ m.Tilesets[q].FirstGID = m.Tilesets[n].FirstGID => q <= n
                 IN  /\ dg.err = NoErr
                     /\ dg.tile.Tileset = best
                     /\ dg.tile.ID.top <= 1
                     /\ Value(dg.tile.ID) = Value(masked) - Value(m.Tilesets[best].FirstGID)
                     /\ dg.tile.HorizontalFlip = (dg.gid.top \div 8 = 1)
                     /\ dg.tile.VerticalFlip = ((dg.gid.top \div 4) % 2 = 1)
                     /\ dg.tile.DiagonalFlip = ((dg.gid.top \div 2) % 2 = 1)
                     /\ dg.tile.Nil = FALSE

C1_Witness ==
    /\ dg.called /\ SortedByFirstGID(m.Tilesets) /\ Len(m.Tilesets) = 2
    /\ m.Tilesets[1].FirstGID = U32(0, 1) /\ m.Tilesets[2].FirstGID = U32(0, 5)
    /\ dg.gid = U32(10, 4)
    /\ dg.err = NoErr /\ dg.tile.Tileset = 1 /\ dg.tile.ID = U32(0, 3)
    /\ dg.tile.HorizontalFlip /\ dg.tile.DiagonalFlip /\ ~dg.tile.VerticalFlip

(* C2: the identifier DecodeGID compares and subtracts from is the low 28  *)
(* bits of gid (gid AND GIDMask): nonzero gids that differ only in bit 28  *)
(* and the flip bits get the same tileset and the same ID, or all fail.    *)
C2_LookupUsesLow28Bits ==
    (dg.called /\ dg.gid # U32Zero) =>
        /\ dg.err = NoErr =>
              dg.tile.ID = U32Sub(U32And(dg.gid, GIDMask),
                                  m.Tilesets[dg.tile.Tileset].FirstGID)
        /\ \A other \in GIDs :
              (other # U32Zero /\ other.low = dg.gid.low) =>
                  LET r == DecodeGID(m.Tilesets, other)
                  IN  /\ r.err = dg.err
                      /\ r.tile.Tileset = dg.tile.Tileset
                      /\ r.tile.ID = dg.tile.ID

----------------------------------------------------------------------------
(* Properties of Layer.Decode, checked under SpecLayer.                    *)

(* The payload base-64-decodes and decompresses, under the layer's         *)
(* compression tag, without error.                                         *)
PayloadDecodes(layer) ==
    /\ layer.Data.Compression \in {Gzip, Zlib}
    /\ layer.Data.Bytes.kind = "ok"
    /\ layer.Data.Bytes.format = layer.Data.Compression

(* C3: for any integer Width and Height, a successful Layer.Decode returns *)
(* exactly Width*Height GIDs, element n being the n-th 4-byte little-      *)
(* endian group of the decompressed bytes B, and all of B is consumed.     *)
C3_DecodeYieldsLittleEndianGroups ==
    (ld.called /\ ld.err = NoErr) =>
        LET B == ld.layer.Data.Bytes.content
        IN  /\ Len(ld.gids) = ld.layer.Width * ld.layer.Height
            /\ Len(B) = 4 * Len(ld.gids)
            /\ \A n \in 1..Len(ld.gids) :
                  LEBytes(ld.gids[n]) = SubSeq(B, 4 * n - 3, 4 * n)

(* C4: a layer whose encoding tag is not base64 fails with                 *)
(* ErrUnsupportedEncoding, whatever its payload and compression tag.       *)
C4_OtherEncodingIsUnsupported ==
    (ld.called /\ ld.layer.Data.Encoding # Base64) =>
        ld.err = ErrUnsupportedEncoding

C6_LengthDecidesSuccess ==
    (ld.called /\ PayloadDecodes(ld.layer)) =>
        LET n == Len(ld.layer.Data.Bytes.content)
            want == ld.layer.Width * ld.layer.Height * 4
        IN  /\ (ld.err = NoErr) <=> (n = want)
            /\ n # want => (ld.gids = <<>> /\ ld.err = ErrInvalidDecodedDataLen)

C6_Witness ==
    /\ ld.called /\ PayloadDecodes(ld.layer)
    /\ ld.layer.Width = 2 /\ ld.layer.Height = 1
    /\ Len(ld.layer.Data.Bytes.content) = 7
    /\ ld.gids = <<>> /\ ld.err = ErrInvalidDecodedDataLen

----------------------------------------------------------------------------
(* Properties of Polygon.Decode, checked under SpecPolygon.                *)

(* C9 as stated: a Points string written from n >= 0 points decodes,       *)
(* without error, to exactly those n points in order; n = 0 included.      *)
C9_DecodesEveryPointList ==
    (pg.called /\ pg.known) => (pg.err = NoErr /\ pg.pts = pg.src)

(* C9 as amended: a Points string written from n >= 1 points decodes,      *)
(* without error, to exactly those n points in order; the empty string     *)
(* (n = 0) fails with ErrInvalidPointsField and yields no points.          *)
C9_DecodesNonEmptyPointList ==
    (pg.called /\ pg.known) =>
        IF pg.src = <<>>
        THEN pg.Points = <<>> /\ pg.err = ErrInvalidPointsField /\ pg.pts = <<>>
        ELSE pg.err = NoErr /\ pg.pts = pg.src

C9_Witness ==
    /\ pg.called /\ pg.known
    /\ pg.Points = <<"0", ",", "0", " ", "1", "0", ",", "0", " ", "1", "0", ",", "1", "0">>
    /\ pg.err = NoErr
    /\ pg.pts = <<[X |-> 0, Y |-> 0], [X |-> 10, Y |-> 0], [X |-> 10, Y |-> 10]>>

----------------------------------------------------------------------------
(* Properties of Map.DecodedLayers, Read and getTileset, checked under     *)
(* Spec.                                                                   *)

Min(S) == CHOOSE x \in S : \A y \in S : x <= y

DecodedGIDs(n) == LayerDecode(m.Layers[n])

FailingGIDs(n) ==
    {q \in 1..Len(DecodedGIDs(n).gids) :
        DecodeGID(m.Tilesets, DecodedGIDs(n).gids[q]).err # NoErr}

LayerFails(n) == DecodedGIDs(n).err # NoErr \/ FailingGIDs(n) # {}

FailingLayers == {n \in 1..Len(m.Layers) : LayerFails(n)}

(* The steps layer n takes when it is reached: Decode, then DecodeGID on   *)
(* each GID in index order up to and including the first that fails.       *)
StepsOfLayer(n) ==
    <<Step("Decode", n - 1, 0)>> \o
    (IF DecodedGIDs(n).err # NoErr THEN <<>>
     ELSE [q \in 1..(IF FailingGIDs(n) = {} THEN Len(DecodedGIDs(n).gids)
                     ELSE Min(FailingGIDs(n))) |-> Step("DecodeGID", n - 1, q - 1)])

ExpectedSteps ==
    Flatten([n \in 1..(IF FailingLayers = {} THEN Len(m.Layers) ELSE Min(FailingLayers))
                |-> StepsOfLayer(n)])

ExpectedErr ==
    IF FailingLayers = {} THEN NoErr
    ELSE LET n == Min(FailingLayers)
         IN  IF DecodedGIDs(n).err # NoErr THEN DecodedGIDs(n).err
             ELSE DecodeGID(m.Tilesets, DecodedGIDs(n).gids[Min(FailingGIDs(n))]).err

Returned == pc \in {"returned", "classify", "done"}

(* C7: DecodedLayers takes its steps in document order, Decode before the  *)
(* DecodeGID calls of a layer and those in index order; it returns an      *)
(* error exactly when a step fails, namely the error of the earliest       *)
(* failing step, with a nil slice, and takes no step after the failure;    *)
(* with no failure it returns one DecodedLayer per layer, in order, whose  *)
(* DecodedTiles[q] is DecodeGID of the layer's q-th GID.                   *)
C7_DecodedLayersStopsAtFirstError ==
    /\ Len(steps) <= Len(ExpectedSteps)
    /\ steps = SubSeq(ExpectedSteps, 1, Len(steps))
    /\ Returned =>
          /\ steps = ExpectedSteps
          /\ (err # NoErr) <=> (FailingLayers # {})
          /\ err = ExpectedErr
          /\ err # NoErr => layers = <<>>
          /\ err = NoErr =>
                /\ Len(layers) = Len(m.Layers)
                /\ \A n \in 1..Len(layers) :
                      layers[n].DecodedTiles =
                          [q \in 1..Len(DecodedGIDs(n).gids) |->
                              DecodeGID(m.Tilesets, DecodedGIDs(n).gids[q]).tile]

C7_Witness ==
    /\ pc = "returned" /\ Len(m.Layers) = 2
    /\ Len(out) = 1 /\ Len(out[1].DecodedTiles) > 0
    /\ err = ErrInvalidGID /\ layers = <<>>
    /\ steps[Len(steps)] = Step("DecodeGID", 1, 1)

NonNilTiles(tiles) == {q \in 1..Len(tiles) : ~tiles[q].Nil}

TilesetsUsed(tiles) == {tiles[q].Tileset : q \in NonNilTiles(tiles)}

(* C8: every DecodedLayer that DecodedLayers returns, also during Read,    *)
(* carries its classification: Empty exactly when all its tiles are Nil,   *)
(* Tileset set exactly when its non-Nil tiles exist and share one tileset, *)
(* and then it is that tileset.                                            *)
C8_ReturnedLayersAreClassified ==
    (Returned /\ err = NoErr) =>
        \A n \in 1..Len(layers) :
            LET used == TilesetsUsed(layers[n].DecodedTiles)
            IN  /\ layers[n].Empty <=> (NonNilTiles(layers[n].DecodedTiles) = {})
                /\ (layers[n].Tileset # NoTileset) <=> (Cardinality(used) = 1)
                /\ Cardinality(used) = 1 => layers[n].Tileset \in used

Classified == pc \in {"classify", "done"} /\ err = NoErr /\ k >= 1

(* C10: getTileset gives exactly one of three outcomes: no non-Nil tile:   *)
(* empty, not multi, no tileset; non-Nil tiles sharing one tileset: that   *)
(* tileset, not empty, not multi; two non-Nil tiles of different tilesets: *)
(* multi, not empty, and Read records no tileset on the layer.  Dropping   *)
(* the Nil tiles from the sequence leaves the outcome as it is.            *)
C10_getTilesetClassifies ==
    Classified =>
        LET tiles == layers[k].DecodedTiles
            used == TilesetsUsed(tiles)
            dense == SelectSeq(tiles, LAMBDA t : ~t.Nil)
        IN  /\ used = {} =>
                  cls = [tileset |-> NoTileset, isEmpty |-> TRUE,
                         usesMultipleTilesets |-> FALSE]
            /\ Cardinality(used) = 1 =>
                  /\ cls.tileset \in used
                  /\ ~cls.isEmpty /\ ~cls.usesMultipleTilesets
            /\ Cardinality(used) >= 2 =>
                  /\ cls.usesMultipleTilesets /\ ~cls.isEmpty
                  /\ l.Tileset = NoTileset
            /\ getTileset([l EXCEPT !.DecodedTiles = dense]) = cls

C10_Witness ==
    /\ Classified /\ Len(l.DecodedTiles) = 2
    /\ l.DecodedTiles[2].Nil /\ ~l.DecodedTiles[1].Nil
    /\ cls = [tileset |-> l.DecodedTiles[1].Tileset, isEmpty |-> FALSE,
              usesMultipleTilesets |-> FALSE]

====
